---- MODULE Spec2Model ----
(***************************************************************************)
(* A model of the two generations of the GitHub administration script:     *)
(*   "gm"  src/git-manager.py  (logs to a local Excel file, on success)    *)
(*   "gh"  src/github.py       (logs to Google Sheets, always)             *)
(* One behaviour is one process invocation: main() checks --org, then      *)
(* run_action() executes the branch of the requested action.  Every call   *)
(* of make_request and every call of the audit logger is one step; the     *)
(* remote's answer to a request is an input of that step.                  *)
(*                                                                         *)
(* Python strings are sequences of one-character strings, so that          *)
(* "@" in s and s.lower() are computed, not assumed.  What the scripts     *)
(* print is not part of the state, so --verbose, which only selects what   *)
(* is printed, is left out of the command line.                            *)
(*                                                                         *)
(* Spec follows one invocation; the audit logger is there the call handed  *)
(* a record, and trace keeps every such call and its arguments.  What the  *)
(* call does to its backend, which outlives the invocation, is followed    *)
(* by SpecLog: the logger calls of successive invocations against one      *)
(* worksheet or one file, each with a step of the backend that may fail.   *)
(* In Spec the remote's answers are inputs; SpecRemote follows the         *)
(* team-repository bindings the remote keeps over successive add-repo      *)
(* invocations.  SpecPair runs git-manager.py and then github.py on one     *)
(* command line against a remote that gives both the same answers, and     *)
(* keeps in peer the Transport calls of the first for the second's.        *)
(***************************************************************************)
EXTENDS Integers, Sequences, FiniteSets, TLC

VARIABLES variant, args, pc, outcome, trace, success, team_info, loc, last,
          backend, lastlog, remote, peer

vars ==
    <<variant, args, pc, outcome, trace, success, team_info, loc, last,
      backend, lastlog, remote, peer>>

-----------------------------------------------------------------------------
(* Bounds of the model *)

\* longest team listing the remote returns to get_team_by_name
MaxTeams == 2
\* longest member listing the remote returns to list_users
MaxUsers == 2
\* longest repository listing the remote returns to list_repos
MaxRepos == 2
\* longest team listing the remote returns to list_users_with_access
MaxAuditTeams == 1

-----------------------------------------------------------------------------
(* Python values *)

\* Python's None, kept apart from the empty string <<>>
None == <<"None">>

\* bool(s) is False for None and for ""
Falsy(s) == s = None \/ s = <<>>

sO == <<"o">>
sEng == <<"e", "n", "g">>
sBob == <<"b", "o", "b">>
sAl == <<"a", "l">>
sEmail == <<"a", "@", "b">>
sSvc == <<"s", "v", "c">>
sWeb == <<"w", "e", "b">>
sNew == <<"n", "e", "w">>
sPush == <<"p", "u", "s", "h">>
sAdmin == <<"a", "d", "m", "i", "n">>
sNone == <<"n", "o", "n", "e">>
sActive == <<"a", "c", "t", "i", "v", "e">>
sPending == <<"p", "e", "n", "d", "i", "n", "g">>
sNotFound == <<"N", "o", "t", " ", "F", "o", "u", "n", "d">>

\* str.lower() on one character, over the alphabet of the model
LowerChar(c) ==
    CASE c = "A" -> "a" [] c = "D" -> "d" [] c = "E" -> "e" [] c = "G" -> "g"
      [] c = "H" -> "h" [] c = "I" -> "i" [] c = "M" -> "m" [] c = "N" -> "n"
      [] c = "O" -> "o" [] c = "P" -> "p" [] c = "S" -> "s" [] c = "U" -> "u"
      [] OTHER -> c

\* str.lower()
Lower(s) == [i \in DOMAIN s |-> LowerChar(s[i])]

\* "@" in s
ContainsAt(s) == \E i \in DOMAIN s : s[i] = "@"

-----------------------------------------------------------------------------
(* JSON values and HTTP responses *)

\* one element of a listing: a team (name, slug), a member (login) or a
\* repository (name)
Item(name, slug, login) == [name |-> name, slug |-> slug, login |-> login]

\* a decoded JSON value: an object (with the keys the code reads and
\* possibly others), a list of items, or null
JObj(message, state, permission, other) ==
    [t |-> "obj", message |-> message, state |-> state,
     permission |-> permission, other |-> other, items |-> <<>>]
JList(items) ==
    [t |-> "list", message |-> None, state |-> None,
     permission |-> None, other |-> FALSE, items |-> items]
JNull ==
    [t |-> "null", message |-> None, state |-> None,
     permission |-> None, other |-> FALSE, items |-> <<>>]
EmptyObj == JObj(None, None, None, FALSE)

\* bool(v) of a decoded JSON value
Truthy(v) ==
    CASE v.t = "obj" -> (v.message # None \/ v.state # None
                         \/ v.permission # None \/ v.other)
      [] v.t = "list" -> v.items # <<>>
      [] OTHER -> FALSE

\* a response body: empty text, text that is not JSON, or JSON text
EmptyBody == [kind |-> "empty", val |-> JNull]
InvalidBody == [kind |-> "invalid", val |-> JNull]
JsonBody(v) == [kind |-> "json", val |-> v]

\* what requests.<method>() gives: a RequestException (net), or a response
NetworkError == [net |-> TRUE, status |-> 0, body |-> EmptyBody]
Response(status, body) == [net |-> FALSE, status |-> status, body |-> body]

SuccessStatus == {200, 201, 204}
Statuses == SuccessStatus \cup {404}

\* bodies of an error answer: every shape
ErrorBodies ==
    {EmptyBody, InvalidBody, JsonBody(EmptyObj),
     JsonBody(JObj(sNotFound, None, None, FALSE)),
     JsonBody(JObj(None, None, None, TRUE)),
     JsonBody(JList(<<>>)), JsonBody(JNull)}

ErrorResponses ==
    {NetworkError} \cup {Response(404, b) : b \in ErrorBodies}

\* answers to a POST, PUT or DELETE
MutResponses ==
    {NetworkError} \cup {Response(s, b) : s \in Statuses, b \in ErrorBodies}

\* a well-formed answer to GET /users/{username} and other single-object GETs
ObjectResponses ==
    ErrorResponses \cup {Response(200, JsonBody(JObj(None, None, None, TRUE)))}

\* answers to a listing GET: an error, or 200 with no text, bad text, or a
\* JSON list of well-formed items
ListResponses(lists) ==
    ErrorResponses
      \cup {Response(200, b) : b \in {EmptyBody, InvalidBody}}
      \cup {Response(200, JsonBody(JList(l))) : l \in lists}

\* all sequences over S of length at most n
SeqsUpTo(S, n) == UNION {[1..k -> S] : k \in 0..n}

\* the prefixes of sequence u of length at most n
Prefixes(u, n) == {SubSeq(u, 1, k) : k \in 0..(IF n < Len(u) THEN n ELSE Len(u))}

TeamEng == Item(<<"E", "n", "g">>, <<"e", "n", "g", "-", "1">>, None)
TeamENG == Item(<<"E", "N", "G">>, <<"e", "n", "g", "-", "2">>, None)
TeamOps == Item(<<"O", "p", "s">>, <<"o", "p", "s">>, None)
TeamItems == {TeamEng, TeamENG, TeamOps}

\* team listings as get_team_by_name sees them: any order, duplicates of a
\* name up to case included
TeamLists == SeqsUpTo(TeamItems, MaxTeams)

UserUniverse ==
    <<Item(None, None, sBob), Item(None, None, sAl),
      Item(None, None, <<"c">>), Item(None, None, <<"d">>)>>
RepoUniverse ==
    <<Item(sSvc, None, None), Item(sWeb, None, None),
      Item(<<"x">>, None, None), Item(<<"y">>, None, None)>>
AuditTeamUniverse == <<TeamEng, TeamOps, TeamENG>>

UserLists == Prefixes(UserUniverse, MaxUsers)
RepoLists == Prefixes(RepoUniverse, MaxRepos)
AuditTeamLists == Prefixes(AuditTeamUniverse, MaxAuditTeams)

-----------------------------------------------------------------------------
(* Transport: GitHubAPIManager.make_request *)

\* the outcome of a call of make_request: a returned value, None ("no
\* result"), or an exception that leaves make_request
Value(v) == [kind |-> "value", val |-> v]
NoResult == [kind |-> "none", val |-> JNull]
Raised == [kind |-> "raise", val |-> JNull]

\* response.json() returning Python None (the JSON text null) is returned by
\* make_request as None
Returned(v) == IF v.t = "null" THEN NoResult ELSE Value(v)

make_request(method, resp) ==
    IF method \notin {"GET", "POST", "PUT", "DELETE"} THEN Raised
    ELSE IF resp.net THEN NoResult
    ELSE IF resp.status \notin SuccessStatus THEN
        IF resp.body.kind = "empty" THEN NoResult
        ELSE IF resp.body.kind = "invalid" THEN NoResult
        ELSE IF resp.body.val.t = "obj" THEN NoResult
        ELSE Raised
    ELSE IF resp.body.kind = "empty" THEN Value(EmptyObj)
    ELSE IF resp.body.kind = "invalid" THEN NoResult
    ELSE Returned(resp.body.val)

\* the request make_request sends
NoData == [kind |-> "none", name |-> None, permission |-> None, private |-> FALSE]
TeamData(name) ==
    [kind |-> "team", name |-> name, permission |-> None, private |-> FALSE]
PermissionData(permission) ==
    [kind |-> "permission", name |-> None, permission |-> permission,
     private |-> FALSE]
RepoData(name, private) ==
    [kind |-> "repo", name |-> name, permission |-> None, private |-> private]

Req(method, endpoint, org, team_slug, repo, username, data) ==
    [method |-> method, endpoint |-> endpoint, org |-> org,
     team_slug |-> team_slug, repo |-> repo, username |-> username,
     data |-> data]

IsMutating(req) == req.method \in {"POST", "PUT", "DELETE"}

-----------------------------------------------------------------------------
(* Access Operations.  Each takes the remote's answer as its last argument *)
(* and gives the request sent, make_request's outcome and its own return   *)
(* value: ret for the boolean operations, list for the listing ones.       *)

Call(op, req, resp, res, ret, list) ==
    [op |-> op, req |-> req, resp |-> resp, res |-> res, ret |-> ret,
     list |-> list]

\* "if response is None: return []  /  return response"
ListOf(res) ==
    IF res.kind = "value" /\ res.val.t = "list" THEN res.val.items ELSE <<>>

list_orgs(resp) ==
    LET res == make_request("GET", resp)
    IN Call("list_orgs",
            Req("GET", "/user/memberships/orgs", None, None, None, None, NoData),
            resp, res, FALSE, ListOf(res))

list_teams(org, resp) ==
    LET res == make_request("GET", resp)
    IN Call("list_teams",
            Req("GET", "/orgs/{org}/teams", org, None, None, None, NoData),
            resp, res, FALSE, ListOf(res))

list_repos(org, resp) ==
    LET res == make_request("GET", resp)
    IN Call("list_repos",
            Req("GET", "/orgs/{org}/repos", org, None, None, None, NoData),
            resp, res, FALSE, ListOf(res))

list_users(org, resp) ==
    LET res == make_request("GET", resp)
    IN Call("list_users",
            Req("GET", "/orgs/{org}/members", org, None, None, None, NoData),
            resp, res, FALSE, ListOf(res))

\* "if response:"
create_team(org, team_name, resp) ==
    LET res == make_request("POST", resp)
    IN Call("create_team",
            Req("POST", "/orgs/{org}/teams", org, None, None, None,
                TeamData(team_name)),
            resp, res, res.kind = "value" /\ Truthy(res.val), <<>>)

\* "if response is not None:"
delete_team(org, team_slug, resp) ==
    LET res == make_request("DELETE", resp)
    IN Call("delete_team",
            Req("DELETE", "/orgs/{org}/teams/{team_slug}", org, team_slug,
                None, None, NoData),
            resp, res, res.kind = "value", <<>>)

\* mutant: add_team_to_repo testing "if response:" as create_team does
add_team_to_repo_if_response(org, team_slug, repo, permission, resp) ==
    LET res == make_request("PUT", resp)
    IN Call("add_team_to_repo",
            Req("PUT", "/orgs/{org}/teams/{team_slug}/repos/{org}/{repo}", org,
                team_slug, repo, None, PermissionData(permission)),
            resp, res, res.kind = "value" /\ Truthy(res.val), <<>>)

add_team_to_repo(org, team_slug, repo, permission, resp) ==
    LET res == make_request("PUT", resp)
    IN Call("add_team_to_repo",
            Req("PUT", "/orgs/{org}/teams/{team_slug}/repos/{org}/{repo}", org,
                team_slug, repo, None, PermissionData(permission)),
            resp, res, res.kind = "value", <<>>)

remove_team_from_repo(org, team_slug, repo, resp) ==
    LET res == make_request("DELETE", resp)
    IN Call("remove_team_from_repo",
            Req("DELETE", "/orgs/{org}/teams/{team_slug}/repos/{org}/{repo}",
                org, team_slug, repo, None, NoData),
            resp, res, res.kind = "value", <<>>)

\* "if response:"
add_user_to_team(org, team_slug, username, resp) ==
    LET res == make_request("PUT", resp)
    IN Call("add_user_to_team",
            Req("PUT", "/orgs/{org}/teams/{team_slug}/memberships/{username}",
                org, team_slug, None, username, NoData),
            resp, res, res.kind = "value" /\ Truthy(res.val), <<>>)

remove_user_from_team(org, team_slug, username, resp) ==
    LET res == make_request("DELETE", resp)
    IN Call("remove_user_from_team",
            Req("DELETE", "/orgs/{org}/teams/{team_slug}/memberships/{username}",
                org, team_slug, None, username, NoData),
            resp, res, res.kind = "value", <<>>)

\* "if response:"
create_repo(org, repo_name, private, resp) ==
    LET res == make_request("POST", resp)
    IN Call("create_repo",
            Req("POST", "/orgs/{org}/repos", org, None, None, None,
                RepoData(repo_name, private)),
            resp, res, res.kind = "value" /\ Truthy(res.val), <<>>)

delete_repo(org, repo_name, resp) ==
    LET res == make_request("DELETE", resp)
    IN Call("delete_repo",
            Req("DELETE", "/repos/{org}/{repo_name}", org, None, repo_name,
                None, NoData),
            resp, res, res.kind = "value", <<>>)

\* validate_user after its "@" test: GET /users/{username}
validate_user_request(username, resp) ==
    LET res == make_request("GET", resp)
    IN Call("validate_user",
            Req("GET", "/users/{username}", None, None, None, username, NoData),
            resp, res, res.kind = "value", <<>>)

\* get_team_by_name's scan: the first team whose name matches ignoring case
NoTeam == Item(None, None, None)

RECURSIVE FirstMatch(_, _)
FirstMatch(teams, team_name) ==
    IF teams = <<>> THEN NoTeam
    ELSE IF Lower(Head(teams).name) = Lower(team_name) THEN Head(teams)
    ELSE FirstMatch(Tail(teams), team_name)

get_team_by_name(org, team_name, resp) ==
    LET c == list_teams(org, resp)
    IN [call |-> c, team |-> FirstMatch(c.list, team_name)]

-----------------------------------------------------------------------------
(* Access Level Classifier and the record handed to the audit logger *)

Description(text, arg) == [text |-> text, arg |-> arg]
NoDescription == Description("None", <<>>)

\* mutant: the default built from permission.lower()
get_access_level_description_lowered(permission) ==
    LET p == Lower(permission)
    IN CASE p = sAdmin ->
              Description("Full Access - Admin (Create, Read, Update, Delete, Manage Settings)", <<>>)
         [] p = <<"m", "a", "i", "n", "t", "a", "i", "n">> ->
              Description("Maintain Access (Create, Read, Update, Delete, Manage Issues/PRs)", <<>>)
         [] p = sPush ->
              Description("Write Access (Create, Read, Update, Delete Code)", <<>>)
         [] p = <<"t", "r", "i", "a", "g", "e">> ->
              Description("Triage Access (Read, Manage Issues/PRs)", <<>>)
         [] p = <<"p", "u", "l", "l">> ->
              Description("Read Access (Clone, Pull, View)", <<>>)
         [] p = sNone -> Description("No Access", <<>>)
         [] OTHER -> Description("Unknown Access Level ({permission})", p)

\* access_levels.get(permission.lower(), f"Unknown Access Level ({permission})")
get_access_level_description(permission) ==
    LET p == Lower(permission)
    IN CASE p = sAdmin ->
              Description("Full Access - Admin (Create, Read, Update, Delete, Manage Settings)", <<>>)
         [] p = <<"m", "a", "i", "n", "t", "a", "i", "n">> ->
              Description("Maintain Access (Create, Read, Update, Delete, Manage Issues/PRs)", <<>>)
         [] p = sPush ->
              Description("Write Access (Create, Read, Update, Delete Code)", <<>>)
         [] p = <<"t", "r", "i", "a", "g", "e">> ->
              Description("Triage Access (Read, Manage Issues/PRs)", <<>>)
         [] p = <<"p", "u", "l", "l">> ->
              Description("Read Access (Clone, Pull, View)", <<>>)
         [] p = sNone -> Description("No Access", <<>>)
         [] OTHER -> Description("Unknown Access Level ({permission})", permission)

\* the arguments of one audit-logger call.  status is "-" where the log has
\* no status column (git-manager.py)
Record(action, org, team, repo, user, permission, access_level, status, repo_name, repo_private) ==
    [action |-> action, org |-> org, team |-> team, repo |-> repo,
     user |-> user, permission |-> permission, access_level |-> access_level,
     status |-> status, repo_name |-> repo_name, repo_private |-> repo_private]

\* a or b
Or(a, b) == IF Falsy(a) THEN b ELSE a

\* github.py: the log_to_google_sheets call that ends run_action
PrimaryRecordSheets(a, ok) ==
    Record(a.action, a.org, a.team, Or(a.repo, a.repo_name), a.user,
           a.permission,
           IF Falsy(a.permission) THEN NoDescription
           ELSE get_access_level_description(a.permission),
           IF ok THEN "Success" ELSE "Failed", None, FALSE)

\* git-manager.py: log_data, as log_action_to_excel reads it
PrimaryRecordExcel(a) ==
    Record(a.action, a.org, a.team, a.repo, a.user, a.permission,
           NoDescription, "-", a.repo_name, a.repo_private)

\* github.py: the log_to_google_sheets call of list_users_with_access
AccessRecord(org, user_teams, repo, user, perm) ==
    Record("list-users-access", org, user_teams, repo, user, perm,
           get_access_level_description(perm), "Success", None, FALSE)

-----------------------------------------------------------------------------
(* The events of an invocation, in order: Transport requests and logger calls *)

NoReq == Req("-", "-", None, None, None, None, NoData)
NoRecord ==
    Record("-", None, None, None, None, None, NoDescription, "-", None, FALSE)

\* site: the function whose line makes the call
RequestEvent(req) ==
    [kind |-> "request", site |-> "make_request", req |-> req, rec |-> NoRecord]
LogEvent(site, rec) == [kind |-> "log", site |-> site, req |-> NoReq, rec |-> rec]

NoCall == Call("none", NoReq, NetworkError, NoResult, FALSE, <<>>)

\* a worksheet or a file: whether it exists, its rows, its formats
Backend(exists, rows, formats) ==
    [exists |-> exists, rows |-> rows, formats |-> formats, folder |-> TRUE,
     blank |-> "[[]]"]
\* Spec does not follow the backend
NoBackend == Backend(FALSE, <<>>, {})

\* the remote's team-repository bindings: the permission of each (slug,
\* repo) pair now and before the last request, None where there is none
Remote(binding, before) == [binding |-> binding, before |-> before]
\* Spec does not follow the remote
NoRemote == Remote(<<>>, <<>>)

\* the two scripts run on one command line: what the remote answers to
\* validate_user's GET, to the team listing and to the mutating call,
\* whether git-manager.py has run, the Transport calls it made and how it
\* ended
Peer(validate, listing, mutation, ran, calls, outcome_) ==
    [validate |-> validate, listing |-> listing, mutation |-> mutation,
     ran |-> ran, calls |-> calls, outcome |-> outcome_]
\* Spec runs one script
NoPeer == Peer(NetworkError, NetworkError, NetworkError, FALSE, <<>>, "-")

\* one call of an audit logger: the function that made it, the backend
\* before it, the record handed over, the step that was made to fail, the
\* step that raised
LogCall(site, before, rec, fault, raised) ==
    [called |-> TRUE, site |-> site, before |-> before, rec |-> rec,
     fault |-> fault, raised |-> raised]
NoLogCall ==
    [called |-> FALSE, site |-> "-", before |-> NoBackend, rec |-> NoRecord,
     fault |-> "none", raised |-> "none"]

-----------------------------------------------------------------------------
(* Command lines *)

\* --action choices of each script
Actions(v) ==
    {"create-team", "delete-team", "add-repo", "remove-repo", "add-user",
     "remove-user", "create-repo", "user-access", "list-teams", "list-repos",
     "list-orgs"}
      \cup (IF v = "gh" THEN {"delete-repo", "list-users", "list-users-access"}
            ELSE {})

ListActions == {"list-orgs", "list-teams", "list-repos", "list-users"}
NameBasedActions ==
    {"delete-team", "add-repo", "remove-repo", "add-user", "remove-user"}
MutatingActions ==
    NameBasedActions \cup {"create-team", "create-repo", "delete-repo"}

OrgValues == {None, sO}
TeamValues == {None, <<>>, sEng}
RepoValues == {None, sSvc}
UserValues == {None, sBob, sEmail}
PermissionValues == {None, sPush}
RepoNameValues == {None, sNew}

\* the command lines of the model: every combination of options for the
\* mutating actions; for the read-only actions the options their branch
\* never reads are not given
CommandLines(v) ==
    {a \in [action : Actions(v), org : OrgValues, team : TeamValues,
            repo : RepoValues, user : UserValues,
            permission : PermissionValues, repo_name : RepoNameValues,
            repo_private : BOOLEAN] :
        a.action \notin MutatingActions =>
            /\ a.team = None
            /\ a.repo = None
            /\ a.permission = None
            /\ a.repo_name = None
            /\ ~a.repo_private
            /\ a.user # None => a.action = "user-access"}

-----------------------------------------------------------------------------
(* State *)

\* the locals of get_user_repo_access and list_users_with_access
Locals(users, repos, teams, ui, ti, ri, user_teams, access_repos) ==
    [users |-> users, repos |-> repos, teams |-> teams, ui |-> ui, ti |-> ti,
     ri |-> ri, user_teams |-> user_teams, access_repos |-> access_repos]
NoLocals == Locals(<<>>, <<>>, <<>>, 0, 0, 0, <<>>, <<>>)

Init ==
    /\ variant \in {"gm", "gh"}
    /\ args \in CommandLines(variant)
    /\ pc = "main"
    /\ outcome = "running"
    /\ trace = <<>>
    /\ success = FALSE
    /\ team_info = NoTeam
    /\ loc = NoLocals
    /\ last = NoCall
    /\ backend = NoBackend
    /\ lastlog = NoLogCall
    /\ remote = NoRemote
    /\ peer = NoPeer

\* sys.exit(1)
Exit ==
    /\ pc' = "done"
    /\ outcome' = "exit"

\* an exception nothing catches
Crash ==
    /\ pc' = "done"
    /\ outcome' = "crash"

\* run_action returns
Return ==
    /\ pc' = "done"
    /\ outcome' = "returned"

Goto(label) ==
    /\ pc' = label
    /\ outcome' = outcome

\* a call of make_request made through an Access Operation
Issue(c) ==
    /\ trace' = Append(trace, RequestEvent(c.req))
    /\ last' = c

\* main(): "--org is required"
Main ==
    /\ pc = "main"
    /\ IF args.action # "list-orgs" /\ Falsy(args.org) THEN Exit ELSE Goto("run")
    /\ UNCHANGED <<peer, backend, lastlog, remote, variant, args, trace, success, team_info,
                   loc, last>>

\* mutant: add-repo going on without --permission
MissingParameter_permission_optional(a) ==
    CASE a.action \in {"create-team", "delete-team"} -> Falsy(a.team)
      [] a.action \in {"add-repo", "remove-repo"} ->
           Falsy(a.team) \/ Falsy(a.repo)
      [] a.action \in {"add-user", "remove-user"} ->
           Falsy(a.team) \/ Falsy(a.user)
      [] a.action = "create-repo" -> Falsy(a.repo_name)
      [] a.action = "delete-repo" -> Falsy(a.repo)
      [] a.action = "user-access" -> Falsy(a.user)
      [] OTHER -> FALSE

\* not all([...])
MissingParameter(a) ==
    CASE a.action \in {"create-team", "delete-team"} -> Falsy(a.team)
      [] a.action = "add-repo" ->
           Falsy(a.team) \/ Falsy(a.repo) \/ Falsy(a.permission)
      [] a.action = "remove-repo" -> Falsy(a.team) \/ Falsy(a.repo)
      [] a.action \in {"add-user", "remove-user"} ->
           Falsy(a.team) \/ Falsy(a.user)
      [] a.action = "create-repo" -> Falsy(a.repo_name)
      [] a.action = "delete-repo" -> Falsy(a.repo)
      [] a.action = "user-access" -> Falsy(a.user)
      [] OTHER -> FALSE

\* mutant: github.py's add-user and remove-user without validate_user
FirstStep_unvalidated_in_github(v, action) ==
    CASE action \in ListActions -> "list"
      [] action \in {"create-team", "create-repo", "delete-repo"} -> "mutate"
      [] action \in {"delete-team", "add-repo", "remove-repo"} -> "resolve"
      [] action \in {"add-user", "remove-user"} ->
           IF v = "gm" THEN "validate" ELSE "resolve"
      [] action = "user-access" -> IF v = "gm" THEN "validate" ELSE "access_repos"
      [] OTHER -> "audit_users"

\* where the branch of an action starts once its parameters are there
FirstStep(v, action) ==
    CASE action \in ListActions -> "list"
      [] action \in {"create-team", "create-repo", "delete-repo"} -> "mutate"
      [] action \in {"delete-team", "add-repo", "remove-repo"} -> "resolve"
      [] action \in {"add-user", "remove-user"} -> "validate"
      [] action = "user-access" -> IF v = "gm" THEN "validate" ELSE "access_repos"
      [] OTHER -> "audit_users"

\* run_action: the branch of args.action and its required parameters
CheckParameters ==
    /\ pc = "run"
    /\ IF MissingParameter(args) THEN Exit
       ELSE Goto(FirstStep(variant, args.action))
    /\ UNCHANGED <<peer, backend, lastlog, remote, variant, args, trace, success, team_info,
                   loc, last>>

\* mutant: git-manager.py logging without "if github.<operation>(...)"
AfterOperation_always_logged(ok) == success' = ok /\ Goto("log")

\* mutant: an operation that returned False is called once more
AfterOperation_retried(ok) ==
    /\ success' = ok
    /\ IF ok THEN Goto("log") ELSE Goto("mutate")

\* a mutating branch is over: github.py keeps the result in success and logs
\* the action whatever it is, git-manager.py logs it when the operation
\* returned True (success holds that condition)
AfterOperation(ok) ==
    /\ success' = ok
    /\ IF variant = "gh" \/ ok THEN Goto("log") ELSE Return

\* a read-only branch is over: github.py sets success = True and logs,
\* git-manager.py logs nothing
AfterReadOnly ==
    IF variant = "gh" THEN success' = TRUE /\ Goto("log")
    ELSE success' = success /\ Return

\* list-orgs, list-teams, list-repos, list-users
ListCall(a, resp) ==
    CASE a.action = "list-orgs" -> list_orgs(resp)
      [] a.action = "list-teams" -> list_teams(a.org, resp)
      [] a.action = "list-repos" -> list_repos(a.org, resp)
      [] OTHER -> list_users(a.org, resp)

ListingsOf(action) ==
    CASE action = "list-teams" -> TeamLists
      [] action = "list-repos" -> RepoLists
      [] OTHER -> UserLists

List ==
    /\ pc = "list"
    /\ \E resp \in ListResponses(ListingsOf(args.action)) :
         LET c == ListCall(args, resp)
         IN /\ Issue(c)
            /\ IF c.res.kind = "raise" THEN Crash /\ success' = success
               ELSE AfterReadOnly
    /\ UNCHANGED <<peer, backend, lastlog, remote, variant, args, team_info, loc>>

\* mutant: validate_user without its "@" test
validate_user_rejects_nothing(username) == FALSE

\* validate_user: "if "@" in username: ... return False"
validate_user_rejects(username) == ContainsAt(username)

\* mutant: add-user and remove-user going on to the Resolver whatever
\* validate_user returned
AfterValidate_unchecked(ok) ==
    IF args.action = "user-access"
    THEN IF ok THEN Goto("access_repos") ELSE Return
    ELSE Goto("resolve")

\* "if not github.validate_user(args.user): sys.exit(1)" in add-user and
\* remove-user; "if github.validate_user(args.user):" in git-manager.py's
\* user-access
AfterValidate(ok) ==
    IF args.action = "user-access"
    THEN IF ok THEN Goto("access_repos") ELSE Return
    ELSE IF ok THEN Goto("resolve") ELSE Exit

ValidateUser ==
    /\ pc = "validate"
    /\ IF validate_user_rejects(args.user)
       THEN /\ trace' = trace
            /\ last' = last
            /\ AfterValidate(FALSE)
       ELSE \E resp \in ObjectResponses :
              LET c == validate_user_request(args.user, resp)
              IN /\ Issue(c)
                 /\ IF c.res.kind = "raise" THEN Crash ELSE AfterValidate(c.ret)
    /\ UNCHANGED <<peer, backend, lastlog, remote, variant, args, success, team_info, loc>>

\* mutant: the branch goes on to the operation without testing team_info
AfterResolve_unchecked(team) == success' = success /\ Goto("mutate")

\* what follows get_team_by_name: "if team_info:" / "else:" (github.py only
\* prints; git-manager.py exits) and "if not team_info: sys.exit(1)"
AfterResolve(team) ==
    IF team # NoTeam THEN success' = success /\ Goto("mutate")
    ELSE IF variant = "gm" \/ args.action \in {"add-user", "remove-user"}
         THEN success' = success /\ Exit
         ELSE success' = FALSE /\ Goto("log")

Resolve ==
    /\ pc = "resolve"
    /\ \E resp \in ListResponses(TeamLists) :
         LET g == get_team_by_name(args.org, args.team, resp)
         IN /\ Issue(g.call)
            /\ IF g.call.res.kind = "raise"
               THEN Crash /\ UNCHANGED <<team_info, success>>
               ELSE team_info' = g.team /\ AfterResolve(g.team)
    /\ UNCHANGED <<peer, backend, lastlog, remote, variant, args, loc>>

\* mutant: the team-addressed operations called with the --team name
Operation_by_name(a, team, resp) ==
    CASE a.action = "create-team" -> create_team(a.org, a.team, resp)
      [] a.action = "delete-team" -> delete_team(a.org, a.team, resp)
      [] a.action = "add-repo" ->
           add_team_to_repo(a.org, a.team, a.repo, a.permission, resp)
      [] a.action = "remove-repo" ->
           remove_team_from_repo(a.org, a.team, a.repo, resp)
      [] a.action = "add-user" ->
           add_user_to_team(a.org, a.team, a.user, resp)
      [] a.action = "remove-user" ->
           remove_user_from_team(a.org, a.team, a.user, resp)
      [] a.action = "create-repo" ->
           create_repo(a.org, a.repo_name, a.repo_private, resp)
      [] OTHER -> delete_repo(a.org, a.repo, resp)

\* the Access Operation of a mutating action
Operation(a, team, resp) ==
    CASE a.action = "create-team" -> create_team(a.org, a.team, resp)
      [] a.action = "delete-team" -> delete_team(a.org, team.slug, resp)
      [] a.action = "add-repo" ->
           add_team_to_repo(a.org, team.slug, a.repo, a.permission, resp)
      [] a.action = "remove-repo" ->
           remove_team_from_repo(a.org, team.slug, a.repo, resp)
      [] a.action = "add-user" ->
           add_user_to_team(a.org, team.slug, a.user, resp)
      [] a.action = "remove-user" ->
           remove_user_from_team(a.org, team.slug, a.user, resp)
      [] a.action = "create-repo" ->
           create_repo(a.org, a.repo_name, a.repo_private, resp)
      [] OTHER -> delete_repo(a.org, a.repo, resp)

\* the audit-logger call of run_action
PrimaryRecord ==
    IF variant = "gh" THEN PrimaryRecordSheets(args, success)
    ELSE PrimaryRecordExcel(args)

\* mutant: the action is logged before its operation is called
Mutate_logged_first ==
    /\ pc = "mutate"
    /\ \E resp \in MutResponses :
         LET c == Operation(args, team_info, resp)
         IN /\ trace' = trace \o <<LogEvent("run_action", PrimaryRecord),
                                     RequestEvent(c.req)>>
            /\ last' = c
            /\ success' = c.ret
            /\ IF c.res.kind = "raise" THEN Crash ELSE Return
    /\ UNCHANGED <<peer, backend, lastlog, remote, variant, args, team_info, loc>>

Mutate ==
    /\ pc = "mutate"
    /\ \E resp \in MutResponses :
         LET c == Operation(args, team_info, resp)
         IN /\ Issue(c)
            /\ IF c.res.kind = "raise" THEN Crash /\ success' = success
               ELSE AfterOperation(c.ret)
    /\ UNCHANGED <<peer, backend, lastlog, remote, variant, args, team_info, loc>>

LogPrimary ==
    /\ pc = "log"
    /\ trace' = Append(trace, LogEvent("run_action", PrimaryRecord))
    /\ Return
    /\ UNCHANGED <<peer, backend, lastlog, remote, variant, args, success, team_info, loc, last>>

-----------------------------------------------------------------------------
(* get_user_repo_access *)

\* answers to GET /repos/{org}/{repo}/collaborators/{username}
CollaboratorResponses ==
    {NetworkError, Response(404, JsonBody(JObj(sNotFound, None, None, FALSE))),
     Response(404, JsonBody(JList(<<>>))), Response(204, EmptyBody)}

\* "repos = self.list_repos(org)"
AccessRepos ==
    /\ pc = "access_repos"
    /\ \E resp \in ListResponses(RepoLists) :
         LET c == list_repos(args.org, resp)
         IN /\ Issue(c)
            /\ IF c.res.kind = "raise"
               THEN Crash /\ UNCHANGED <<loc, success>>
               ELSE /\ loc' = [loc EXCEPT !.repos = c.list, !.ri = 1]
                    /\ IF c.list = <<>> THEN AfterReadOnly
                       ELSE success' = success /\ Goto("access_check")
    /\ UNCHANGED <<peer, backend, lastlog, remote, variant, args, team_info>>

collaborator_check(org, repo, username, resp) ==
    LET res == make_request("GET", resp)
    IN Call("get_user_repo_access",
            Req("GET", "/repos/{org}/{repo}/collaborators/{username}", org,
                None, repo, username, NoData),
            resp, res, res.kind = "value", <<>>)

\* one turn of "for repo in repos:"
AccessCheck ==
    /\ pc = "access_check"
    /\ \E resp \in CollaboratorResponses :
         LET repo == loc.repos[loc.ri].name
             c == collaborator_check(args.org, repo, args.user, resp)
         IN /\ Issue(c)
            /\ IF c.res.kind = "raise"
               THEN Crash /\ UNCHANGED <<loc, success>>
               ELSE /\ loc' = [loc EXCEPT
                                 !.access_repos =
                                     IF c.ret THEN Append(@, repo) ELSE @,
                                 !.ri = @ + 1]
                    /\ IF loc.ri = Len(loc.repos) THEN AfterReadOnly
                       ELSE success' = success /\ Goto("access_check")
    /\ UNCHANGED <<peer, backend, lastlog, remote, variant, args, team_info>>

-----------------------------------------------------------------------------
(* list_users_with_access (github.py) *)

AuditUsers ==
    /\ pc = "audit_users"
    /\ \E resp \in ListResponses(UserLists) :
         LET c == list_users(args.org, resp)
         IN /\ Issue(c)
            /\ IF c.res.kind = "raise" THEN Crash /\ loc' = loc
               ELSE loc' = [loc EXCEPT !.users = c.list] /\ Goto("audit_repos")
    /\ UNCHANGED <<peer, backend, lastlog, remote, variant, args, success, team_info>>

AuditRepos ==
    /\ pc = "audit_repos"
    /\ \E resp \in ListResponses(RepoLists) :
         LET c == list_repos(args.org, resp)
         IN /\ Issue(c)
            /\ IF c.res.kind = "raise" THEN Crash /\ loc' = loc
               ELSE loc' = [loc EXCEPT !.repos = c.list] /\ Goto("audit_teams")
    /\ UNCHANGED <<peer, backend, lastlog, remote, variant, args, success, team_info>>

\* where "for user in users:" stands when it reaches user number ui: the
\* first membership check, else the first permission check, else the end
UserTurn(l, ui) ==
    IF ui > Len(l.users) \/ (l.teams = <<>> /\ l.repos = <<>>)
    THEN [pc |-> "log", ui |-> ui, ti |-> 0, ri |-> 0]
    ELSE IF l.teams # <<>>
    THEN [pc |-> "audit_member", ui |-> ui, ti |-> 1, ri |-> 0]
    ELSE [pc |-> "audit_permission", ui |-> ui, ti |-> 0, ri |-> 1]

\* move the loops of list_users_with_access to position p; run_action sets
\* success = True when they are over
AuditGoto(l, p) ==
    /\ loc' = [l EXCEPT !.ui = p.ui, !.ti = p.ti, !.ri = p.ri,
                        !.user_teams = IF p.ui = l.ui THEN @ ELSE <<>>]
    /\ success' = (p.pc = "log")
    /\ Goto(p.pc)

AuditTeams ==
    /\ pc = "audit_teams"
    /\ \E resp \in ListResponses(AuditTeamLists) :
         LET c == list_teams(args.org, resp)
             l == [loc EXCEPT !.teams = c.list, !.ui = 1]
         IN /\ Issue(c)
            /\ IF c.res.kind = "raise"
               THEN Crash /\ UNCHANGED <<loc, success>>
               ELSE AuditGoto(l, UserTurn(l, 1))
    /\ UNCHANGED <<peer, backend, lastlog, remote, variant, args, team_info>>

\* answers to GET /orgs/{org}/teams/{slug}/memberships/{user}
MembershipResponses ==
    {NetworkError, Response(404, JsonBody(JList(<<>>))),
     Response(200, JsonBody(JObj(None, sActive, None, TRUE))),
     Response(200, JsonBody(JObj(None, sPending, None, TRUE)))}

\* answers to GET /repos/{org}/{repo}/collaborators/{user}/permission
PermissionResponses ==
    {NetworkError, Response(404, JsonBody(JList(<<>>))),
     Response(200, JsonBody(JObj(None, None, sAdmin, TRUE))),
     Response(200, JsonBody(JObj(None, None, None, TRUE)))}

membership_check(org, team_slug, user, resp) ==
    LET res == make_request("GET", resp)
    IN Call("list_users_with_access",
            Req("GET", "/orgs/{org}/teams/{slug}/memberships/{user}", org,
                team_slug, None, user, NoData),
            resp, res,
            res.kind = "value" /\ Truthy(res.val) /\ res.val.state = sActive,
            <<>>)

permission_check(org, repo, user, resp) ==
    LET res == make_request("GET", resp)
    IN Call("list_users_with_access",
            Req("GET", "/repos/{org}/{repo}/collaborators/{user}/permission",
                org, None, repo, user, NoData),
            resp, res,
            res.kind = "value" /\ Truthy(res.val) /\ res.val.permission # None,
            <<>>)

\* ", ".join(names)
RECURSIVE Join(_)
Join(names) ==
    IF names = <<>> THEN <<>>
    ELSE IF Len(names) = 1 THEN names[1]
    ELSE names[1] \o <<",", " ">> \o Join(Tail(names))

sNA == <<"N", "/", "A">>

\* one turn of "for team in teams:"
AuditMember ==
    /\ pc = "audit_member"
    /\ \E resp \in MembershipResponses :
         LET team == loc.teams[loc.ti]
             user == loc.users[loc.ui].login
             c == membership_check(args.org, team.slug, user, resp)
             l == [loc EXCEPT !.user_teams =
                                  IF c.ret THEN Append(@, team.name) ELSE @]
         IN /\ Issue(c)
            /\ IF c.res.kind = "raise"
               THEN Crash /\ UNCHANGED <<loc, success>>
               ELSE AuditGoto(l,
                      IF loc.ti < Len(loc.teams)
                      THEN [pc |-> "audit_member", ui |-> loc.ui,
                            ti |-> loc.ti + 1, ri |-> 0]
                      ELSE IF loc.repos # <<>>
                      THEN [pc |-> "audit_permission", ui |-> loc.ui,
                            ti |-> 0, ri |-> 1]
                      ELSE UserTurn(loc, loc.ui + 1))
    /\ UNCHANGED <<peer, backend, lastlog, remote, variant, args, team_info>>

\* where "for repo in repos:" stands after the turn of repo number loc.ri
AfterPair ==
    IF loc.ri < Len(loc.repos)
    THEN [pc |-> "audit_permission", ui |-> loc.ui, ti |-> 0, ri |-> loc.ri + 1]
    ELSE UserTurn(loc, loc.ui + 1)

\* one turn of "for repo in repos:", up to the logger call: the permission
\* check, answered with one of responses
AuditPermissionOn(responses) ==
    /\ pc = "audit_permission"
    /\ \E resp \in responses :
         LET repo == loc.repos[loc.ri].name
             user == loc.users[loc.ui].login
             c == permission_check(args.org, repo, user, resp)
         IN /\ Issue(c)
            /\ IF c.res.kind = "raise" THEN Crash ELSE Goto("audit_log")
    /\ UNCHANGED <<peer, backend, lastlog, remote, variant, args, success, team_info, loc>>

AuditPermission == AuditPermissionOn(PermissionResponses)

\* the record of the pair: "perm = resp['permission'] if resp and
\* 'permission' in resp else "none"" and the arguments of the
\* log_to_google_sheets call that follows
PairRecord ==
    AccessRecord(args.org,
                 IF loc.user_teams # <<>> THEN Join(loc.user_teams) ELSE sNA,
                 loc.repos[loc.ri].name, loc.users[loc.ui].login,
                 IF last.ret THEN last.res.val.permission ELSE sNone)

\* the log_to_google_sheets call of the turn, and the loop going on
LogPair ==
    /\ pc = "audit_log"
    /\ trace' = Append(trace, LogEvent("list_users_with_access", PairRecord))
    /\ AuditGoto(loc, AfterPair)
    /\ UNCHANGED <<peer, backend, lastlog, remote, variant, args, team_info, last>>

-----------------------------------------------------------------------------
(* The audit-logger backends: the worksheet "UserAccessLog" of github.py    *)
(* and the file logs/github_admin_log.xlsx of git-manager.py                *)

\* the cells of a row after its first.  repo_private is the text
\* str(repo_private) writes
Cells(action, org, team, repo, user, permission, access_level, status, notes, repo_name, repo_private) ==
    [action |-> action, org |-> org, team |-> team, repo |-> repo,
     user |-> user, permission |-> permission, access_level |-> access_level,
     status |-> status, notes |-> notes, repo_name |-> repo_name,
     repo_private |-> repo_private]
NoCells ==
    Cells("", <<>>, <<>>, <<>>, <<>>, <<>>, Description("", <<>>), "",
          Description("", <<>>), <<>>, "")

\* a row: the titles of a header row (none for a row of data, whose first
\* cell is a timestamp) and the cells of a row of data
Row(titles, cells) == [titles |-> titles, cells |-> cells]

\* existing_data[0][0]
FirstCell(row) ==
    IF row.titles = <<>> THEN "%Y-%m-%d %H:%M:%S" ELSE row.titles[1]

\* "headers" of log_to_google_sheets
SheetHeader ==
    Row(<<"Timestamp", "Action", "Organization", "Team", "Repository", "User",
          "Permission", "Access Level Description", "Status", "Notes">>,
        NoCells)

\* the header row log_action_to_excel writes into a new file
ExcelHeader ==
    Row(<<"Timestamp (IST)", "Action", "Organization", "Team", "Repository",
          "User", "Permission", "New Repo Name", "Private Repo">>,
        NoCells)

\* a format applied to the cells of column col ("*": all) in row number row
Format(col, row, style, key) ==
    [col |-> col, row |-> row, style |-> style, key |-> key]

\* x or ""
OrEmpty(x) == IF Falsy(x) THEN <<>> ELSE x

\* {x} inside an f-string
Str(x) == IF x = None THEN <<"N", "o", "n", "e">> ELSE x

\* "notes" of log_to_google_sheets
notes_of(rec) ==
    CASE rec.action = "create-repo" ->
           Description("Repository '{repo}' created in organization '{org}'",
                       <<Str(rec.repo), Str(rec.org)>>)
      [] rec.action = "add-user" ->
           Description("User '{user}' added to team '{team}'",
                       <<Str(rec.user), Str(rec.team)>>)
      [] rec.action = "list-users-access" ->
           Description("Access audit for user '{user}' in '{org}'",
                       <<Str(rec.user), Str(rec.org)>>)
      [] rec.action = "delete-team" ->
           Description("Team '{team}' deleted from organization '{org}'",
                       <<Str(rec.team), Str(rec.org)>>)
      [] OTHER -> Description("", <<>>)

\* "row_data" of log_to_google_sheets
row_data(rec) ==
    Row(<<>>,
        Cells(rec.action, OrEmpty(rec.org), OrEmpty(rec.team),
              OrEmpty(rec.repo), OrEmpty(rec.user), OrEmpty(rec.permission),
              IF rec.access_level = NoDescription THEN Description("", <<>>)
              ELSE rec.access_level,
              rec.status, notes_of(rec), <<>>, ""))

\* the row log_action_to_excel appends (a cell given None stays empty)
excel_row(rec) ==
    Row(<<>>,
        Cells(rec.action, OrEmpty(rec.org), OrEmpty(rec.team),
              OrEmpty(rec.repo), OrEmpty(rec.user), OrEmpty(rec.permission),
              Description("", <<>>), "", Description("", <<>>),
              OrEmpty(rec.repo_name),
              IF rec.repo_private THEN "True" ELSE "False"))

\* the keys of color_map
color_map ==
    {sAdmin, <<"m", "a", "i", "n", "t", "a", "i", "n">>, sPush,
     <<"t", "r", "i", "a", "g", "e">>, <<"p", "u", "l", "l">>, sNone}

\* "existing_data[0][0]" raises IndexError when get_all_values gives [[]],
\* as the gspread in use does for a worksheet without a row ("not
\* existing_data" is then False); where it gives [] the header is written
IndexError(sheet) ==
    (~sheet.exists \/ sheet.rows = <<>>) /\ sheet.blank = "[[]]"

\* the calls log_to_google_sheets makes on its way, in order, for a
\* worksheet in state sheet; after an IndexError it makes no more
SheetSteps(sheet, rec) ==
    LET existing_data == IF sheet.exists THEN sheet.rows ELSE <<>>
    IN <<"credentials", "open_by_key">>
       \o (IF sheet.exists THEN <<>> ELSE <<"add_worksheet">>)
       \o <<"get_all_values">>
       \o (IF IndexError(sheet) THEN <<>>
           ELSE (IF existing_data = <<>>
                    \/ FirstCell(existing_data[1]) # "Timestamp"
                 THEN (IF existing_data # <<>> THEN <<"clear">> ELSE <<>>)
                      \o <<"append_header", "format_header">>
                 ELSE <<>>)
                \o <<"append_row", "last_row">>
                \o (IF rec.status \in {"Success", "Failed"}
                    THEN <<"format_status">> ELSE <<>>)
                \o (IF ~Falsy(rec.permission)
                       /\ Lower(rec.permission) \in color_map
                    THEN <<"format_permission">> ELSE <<>>))

\* mutant: log_action_to_excel starting a new workbook at every call
ExcelSteps_always_new(file) ==
    <<"Workbook", "append_titles", "bold_titles", "append", "save">>

\* mutant: log_action_to_excel appending its titles to a loaded workbook too
ExcelSteps_titles_again(file) ==
    (IF file.exists THEN <<"load_workbook">> ELSE <<"Workbook">>)
    \o <<"append_titles", "bold_titles", "append", "save">>

\* the calls log_action_to_excel makes on its way, in order
ExcelSteps(file) ==
    (IF file.exists THEN <<"load_workbook">>
     ELSE <<"Workbook", "append_titles", "bold_titles">>)
    \o <<"append", "save">>

\* what one call that does not fail does to the worksheet, or to the
\* workbook in memory
LoggerStep(step, b, rec) ==
    CASE step \in {"add_worksheet", "Workbook"} ->
           [b EXCEPT !.exists = TRUE, !.rows = <<>>, !.formats = {}]
      [] step = "clear" -> [b EXCEPT !.rows = <<>>]
      [] step = "append_header" -> [b EXCEPT !.rows = Append(@, SheetHeader)]
      [] step = "format_header" ->
           [b EXCEPT !.formats = @ \cup {Format("*", 1, "bold grey", <<>>)}]
      [] step = "append_row" -> [b EXCEPT !.rows = Append(@, row_data(rec))]
      [] step = "format_status" ->
           [b EXCEPT !.formats =
                @ \cup {Format("I", Len(b.rows),
                               IF rec.status = "Success" THEN "green"
                               ELSE "red", <<>>)}]
      [] step = "format_permission" ->
           [b EXCEPT !.formats =
                @ \cup {Format("G", Len(b.rows), "color_map",
                               Lower(rec.permission))}]
      [] step = "append_titles" -> [b EXCEPT !.rows = Append(@, ExcelHeader)]
      [] step = "bold_titles" ->
           [b EXCEPT !.formats = @ \cup {Format("*", 1, "bold", <<>>)}]
      [] step = "append" -> [b EXCEPT !.rows = Append(@, excel_row(rec))]
      [] OTHER -> b

\* workbook.save raises when the directory logs/ is not there
Fails(step, b) == step = "save" /\ ~b.folder

\* the steps in order up to the one that raises, if one does
RECURSIVE RunLogger(_, _, _, _)
RunLogger(steps, b, rec, fault) ==
    IF steps = <<>> THEN [backend |-> b, raised |-> "none"]
    ELSE IF Head(steps) = fault \/ Fails(Head(steps), b)
    THEN [backend |-> b, raised |-> Head(steps)]
    ELSE RunLogger(Tail(steps), LoggerStep(Head(steps), b, rec), rec, fault)

\* mutant: the formatting calls made outside the try block
Caught_but_formatting(step) ==
    step \notin {"format_header", "format_status", "format_permission"}

\* "try: ... except Exception as e:" around the whole body of either logger
Caught(step) == TRUE

\* log_to_google_sheets: the worksheet after the call, the step that raised
\* ("none": none did) and whether the exception left the function
log_to_google_sheets(sheet, rec, fault) ==
    LET r == RunLogger(SheetSteps(sheet, rec), sheet, rec, fault)
        raised == IF r.raised = "none" /\ IndexError(sheet)
                  THEN "existing_data[0][0]" ELSE r.raised
    IN [backend |-> r.backend, raised |-> raised,
        propagated |-> raised # "none" /\ ~Caught(raised)]

\* log_action_to_excel: the workbook is loaded or made, changed in memory,
\* and the file is written by workbook.save alone
log_action_to_excel(file, rec, fault) ==
    LET r == RunLogger(ExcelSteps(file), file, rec, fault)
    IN [backend |-> IF r.raised = "none" THEN r.backend ELSE file,
        raised |-> r.raised,
        propagated |-> r.raised # "none" /\ ~Caught(r.raised)]

-----------------------------------------------------------------------------

Next ==
    \/ Main
    \/ CheckParameters
    \/ List
    \/ ValidateUser
    \/ Resolve
    \/ Mutate
    \/ LogPrimary
    \/ AccessRepos
    \/ AccessCheck
    \/ AuditUsers
    \/ AuditRepos
    \/ AuditTeams
    \/ AuditMember
    \/ AuditPermission
    \/ LogPair

Spec == Init /\ [][Next]_vars

-----------------------------------------------------------------------------
(* The logger calls of successive invocations against one backend *)

\* most rows a backend holds when a logger is called
MaxRows == 3

\* what a worksheet left by an earlier generation of the script starts with
OldHeader == Row(<<"Date", "Action", "Details">>, NoCells)

\* another header of fewer columns, whose first title is "Timestamp"
ShortHeader == Row(<<"Timestamp", "Action", "Details">>, NoCells)

CommandLine(action, org, team, repo, user, permission, repo_name, repo_private) ==
    [action |-> action, org |-> org, team |-> team, repo |-> repo,
     user |-> user, permission |-> permission, repo_name |-> repo_name,
     repo_private |-> repo_private]

\* command lines whose invocation reaches a logger call
LoggedCommandLines(v) ==
    {CommandLine("add-repo", sO, sEng, sSvc, None, sPush, None, FALSE),
     CommandLine("create-repo", sO, None, None, None, None, sNew, TRUE)}
    \cup (IF v = "gm" THEN {}
          ELSE {CommandLine("list-orgs", None, None, None, None, None, None,
                            FALSE),
                CommandLine("list-users-access", sO, None, None, None, None,
                            None, FALSE)})

\* permissions the remote reports to list_users_with_access
ReportedPermissions ==
    {sNone, <<"P", "U", "S", "H">>, <<"O", "w", "n", "e", "r">>}

\* its answers to GET /repos/{org}/{repo}/collaborators/{user}/permission
ReportedResponses ==
    {Response(200, JsonBody(JObj(None, None, p, TRUE))) :
        p \in ReportedPermissions}

\* the answers of the remote to the other calls of these invocations: to
\* a mutating call an empty 204 or none, to the Resolver a listing with
\* the team, to list_users_with_access one user, one
\* repository and no team, to list-orgs no organization
LoggedAnswers(a, req) ==
    IF IsMutating(req) THEN {NetworkError, Response(204, EmptyBody)}
    ELSE {Response(200, JsonBody(JList(l))) :
            l \in CASE req.endpoint = "/orgs/{org}/members" ->
                        {<<UserUniverse[1]>>}
                   [] req.endpoint = "/orgs/{org}/repos" ->
                        {<<RepoUniverse[1]>>}
                   [] req.endpoint = "/orgs/{org}/teams"
                        /\ a.action = "add-repo" -> {<<TeamEng>>}
                   [] OTHER -> {<<>>}}

\* the steps of log_to_google_sheets and of log_action_to_excel that can be
\* made to fail, and "none" for a call in which none fails
SheetFaults ==
    {"none", "credentials", "open_by_key", "add_worksheet", "get_all_values",
     "clear", "append_header", "format_header", "append_row", "last_row",
     "format_status", "format_permission"}
ExcelFaults == {"none", "load_workbook", "append", "save"}

\* the worksheet as an invocation may find it: missing, empty, holding the
\* header, or begun in another format; get_all_values gives [[]] or [] for
\* a worksheet without a row, as the gspread in use does, whichever rows
\* the worksheet starts with (a clear can leave it without a row)
Worksheets ==
    LET found == {Backend(FALSE, <<>>, {}),
                  Backend(TRUE, <<>>, {}),
                  Backend(TRUE, <<SheetHeader>>,
                          {Format("*", 1, "bold grey", <<>>)}),
                  Backend(TRUE, <<OldHeader>>, {}),
                  Backend(TRUE, <<ShortHeader>>, {}),
                  Backend(TRUE, <<OldHeader, Row(<<>>, NoCells)>>, {})}
    IN found \cup {[w EXCEPT !.blank = "[]"] : w \in found}

\* the file as an invocation may find it: absent, with or without the
\* directory logs/, or written by earlier calls
Files ==
    {Backend(FALSE, <<>>, {}),
     [Backend(FALSE, <<>>, {}) EXCEPT !.folder = FALSE],
     Backend(TRUE, <<ExcelHeader>>, {Format("*", 1, "bold", <<>>)})}

NoCommandLine == CommandLine("-", None, None, None, None, None, None, FALSE)

\* no invocation is running, and the backend is as earlier invocations
\* left it
InitLog ==
    /\ variant \in {"gm", "gh"}
    /\ backend \in (IF variant = "gh" THEN Worksheets ELSE Files)
    /\ lastlog = NoLogCall
    /\ args = NoCommandLine
    /\ pc = "done"
    /\ outcome = "returned"
    /\ trace = <<>>
    /\ success = FALSE
    /\ team_info = NoTeam
    /\ loc = NoLocals
    /\ last = NoCall
    /\ remote = NoRemote
    /\ peer = NoPeer

\* main() of a new invocation
Invoke ==
    /\ pc = "done"
    /\ Len(backend.rows) < MaxRows
    /\ args' \in LoggedCommandLines(variant)
    /\ pc' = "main"
    /\ outcome' = "running"
    /\ trace' = <<>>
    /\ success' = FALSE
    /\ team_info' = NoTeam
    /\ loc' = NoLocals
    /\ last' = NoCall
    /\ lastlog' = NoLogCall
    /\ UNCHANGED <<peer, backend, remote, variant>>

\* a step of the invocation before or between its logger calls
LogRun ==
    /\ \/ Main
       \/ CheckParameters
       \/ List
       \/ Resolve
       \/ Mutate
       \/ AuditUsers
       \/ AuditRepos
       \/ AuditTeams
       \/ AuditPermissionOn(ReportedResponses)
    /\ (last'.op \notin {"none", "list_users_with_access"}) =>
           last'.resp \in LoggedAnswers(args, last'.req)

\* the caller after the call: list_users_with_access goes on with its
\* loop, run_action returns; the exception of a logger, had it left the
\* function, would end the invocation
AfterLogger(site, r) ==
    IF r.propagated THEN Crash /\ UNCHANGED <<loc, success>>
    ELSE IF site = "list_users_with_access" THEN AuditGoto(loc, AfterPair)
    ELSE Return /\ UNCHANGED <<loc, success>>

\* the invocation of github.py calls log_to_google_sheets, in
\* list_users_with_access for a pair or at the end of run_action
LogToGoogleSheets ==
    /\ pc \in {"log", "audit_log"}
    /\ variant = "gh"
    /\ \E fault \in SheetFaults :
         LET site == IF pc = "log" THEN "run_action"
                     ELSE "list_users_with_access"
             rec == IF pc = "log" THEN PrimaryRecord ELSE PairRecord
             r == log_to_google_sheets(backend, rec, fault)
         IN /\ backend' = r.backend
            /\ lastlog' = LogCall(site, backend, rec, fault, r.raised)
            /\ trace' = Append(trace, LogEvent(site, rec))
            /\ AfterLogger(site, r)
    /\ UNCHANGED <<peer, remote, variant, args, team_info, last>>

\* the invocation of git-manager.py calls log_action_to_excel
LogActionToExcel ==
    /\ pc = "log"
    /\ variant = "gm"
    /\ \E fault \in ExcelFaults :
         LET rec == PrimaryRecord
             r == log_action_to_excel(backend, rec, fault)
         IN /\ backend' = r.backend
            /\ lastlog' = LogCall("run_action", backend, rec, fault, r.raised)
            /\ trace' = Append(trace, LogEvent("run_action", rec))
            /\ AfterLogger("run_action", r)
    /\ UNCHANGED <<peer, remote, variant, args, team_info, last>>

NextLog ==
    \/ Invoke
    \/ LogRun
    \/ LogToGoogleSheets
    \/ LogActionToExcel

SpecLog == InitLog /\ [][NextLog]_vars

-----------------------------------------------------------------------------
(* Successive add-repo invocations against one remote *)

\* the teams, repositories and permissions of these invocations
BoundTeams == {TeamEng, TeamOps}
BoundRepos == {sSvc, sWeb}
BoundPermissions == {sPush, sAdmin}
BoundPairs == {<<t.slug, r>> : t \in BoundTeams, r \in BoundRepos}

\* what the remote answers to a PUT it accepts (204 No Content), and to one
\* it does not accept or never receives
AcceptedAnswers == {Response(204, EmptyBody)}
RejectedAnswers ==
    {NetworkError, Response(404, JsonBody(JObj(sNotFound, None, None, FALSE))),
     Response(403, JsonBody(JList(<<>>)))}

\* the remote after a PUT /orgs/{org}/teams/{team_slug}/repos/{org}/{repo}:
\* one it accepts sets the permission of the binding the path names to the
\* permission of the body
RemotePut(r, req, resp) ==
    Remote(IF resp \in AcceptedAnswers
           THEN [r.binding EXCEPT ![<<req.team_slug, req.repo>>] =
                                      req.data.permission]
           ELSE r.binding,
           r.binding)

InitRemote ==
    /\ variant \in {"gm", "gh"}
    /\ remote = Remote([p \in BoundPairs |-> None], [p \in BoundPairs |-> None])
    /\ args = NoCommandLine
    /\ pc = "done"
    /\ outcome = "returned"
    /\ trace = <<>>
    /\ success = FALSE
    /\ team_info = NoTeam
    /\ loc = NoLocals
    /\ last = NoCall
    /\ backend = NoBackend
    /\ lastlog = NoLogCall
    /\ peer = NoPeer

\* main() of a new add-repo invocation
InvokeAddRepo ==
    /\ pc = "done"
    /\ \E team \in BoundTeams, repo \in BoundRepos, p \in BoundPermissions :
         args' = CommandLine("add-repo", sO, team.name, repo, None, p, None,
                             FALSE)
    /\ pc' = "main"
    /\ outcome' = "running"
    /\ trace' = <<>>
    /\ success' = FALSE
    /\ team_info' = NoTeam
    /\ last' = NoCall
    /\ UNCHANGED <<peer, backend, lastlog, remote, variant, loc>>

\* what the remote answers to GET /orgs/{org}/teams
RemoteListing == Response(200, JsonBody(JList(<<TeamEng, TeamOps>>)))

\* a step of the invocation other than its PUT
RemoteRun ==
    /\ \/ Main
       \/ CheckParameters
       \/ Resolve
       \/ LogPrimary
    /\ last'.op = "list_teams" => last'.resp = RemoteListing

\* its add_team_to_repo call, and the remote receiving the PUT
AddTeamToRepo ==
    /\ pc = "mutate"
    /\ \E resp \in AcceptedAnswers \cup RejectedAnswers :
         LET c == Operation(args, team_info, resp)
         IN /\ Issue(c)
            /\ remote' = RemotePut(remote, c.req, resp)
            /\ IF c.res.kind = "raise" THEN Crash /\ success' = success
               ELSE AfterOperation(c.ret)
    /\ UNCHANGED <<peer, backend, lastlog, variant, args, team_info, loc>>

NextRemote ==
    \/ InvokeAddRepo
    \/ RemoteRun
    \/ AddTeamToRepo

SpecRemote == InitRemote /\ [][NextRemote]_vars

-----------------------------------------------------------------------------
(* git-manager.py and github.py on one command line: git-manager.py runs   *)
(* to its end, then github.py runs, and the remote answers the calls of    *)
(* both in the same way.                                                    *)

\* the mutating actions both scripts have
SharedActions ==
    {"create-team", "delete-team", "add-repo", "remove-repo", "add-user",
     "remove-user", "create-repo"}

\* their command lines, required options missing or empty included;
\* options the branch of the action never reads are not given
PairCommandLines ==
    {a \in CommandLines("gm") \cap CommandLines("gh") :
        /\ a.action \in SharedActions
        /\ a.action = "create-repo" => a.team = None
        /\ a.action \notin {"add-repo", "remove-repo"} => a.repo = None
        /\ a.action \notin {"add-user", "remove-user"} => a.user = None
        /\ a.action # "add-repo" => a.permission = None
        /\ a.action # "create-repo" => a.repo_name = None /\ ~a.repo_private}

\* the remote's answers to the calls the branch of a can make; an answer
\* to a call it never makes is not drawn
PairAnswers(a) ==
    {Peer(v, l, m, FALSE, <<>>, "-") :
        v \in IF a.action \in {"add-user", "remove-user"}
              THEN ObjectResponses ELSE {NetworkError},
        l \in IF a.action \in NameBasedActions
              THEN ListResponses(TeamLists) ELSE {NetworkError},
        m \in IF Falsy(a.org) \/ MissingParameter(a)
              THEN {NetworkError} ELSE MutResponses}

\* the Transport calls among the events of an invocation, in order
TransportCalls(events) ==
    LET calls == SelectSeq(events, LAMBDA e : e.kind = "request")
    IN [i \in DOMAIN calls |-> calls[i].req]

InitPair ==
    /\ variant = "gm"
    /\ args \in PairCommandLines
    /\ peer \in PairAnswers(args)
    /\ pc = "main"
    /\ outcome = "running"
    /\ trace = <<>>
    /\ success = FALSE
    /\ team_info = NoTeam
    /\ loc = NoLocals
    /\ last = NoCall
    /\ backend = NoBackend
    /\ lastlog = NoLogCall
    /\ remote = NoRemote

\* what the remote answers to the call of an Access Operation
Answer(op) ==
    CASE op = "validate_user" -> peer.validate
      [] op = "list_teams" -> peer.listing
      [] OTHER -> peer.mutation

\* a step of the script that is running, its Transport call answered as
\* the remote answers both scripts
PairRun ==
    /\ \/ Main
       \/ CheckParameters
       \/ ValidateUser
       \/ Resolve
       \/ Mutate
       \/ LogPrimary
    /\ (Len(trace') > Len(trace) /\ trace'[Len(trace')].kind = "request") =>
           last'.resp = Answer(last'.op)

\* git-manager.py has ended: github.py is started on the same command line
Switch ==
    /\ pc = "done"
    /\ variant = "gm"
    /\ ~peer.ran
    /\ peer' = [peer EXCEPT !.ran = TRUE, !.calls = TransportCalls(trace),
                            !.outcome = outcome]
    /\ variant' = "gh"
    /\ pc' = "main"
    /\ outcome' = "running"
    /\ trace' = <<>>
    /\ success' = FALSE
    /\ team_info' = NoTeam
    /\ last' = NoCall
    /\ UNCHANGED <<backend, lastlog, remote, args, loc>>

NextPair ==
    \/ PairRun
    \/ Switch

SpecPair == InitPair /\ [][NextPair]_vars

-----------------------------------------------------------------------------
(* What the claims speak of *)

\* positions in trace of the requests, the mutating requests, the Resolver's
\* listing and the audit-logger calls
Requests == {i \in DOMAIN trace : trace[i].kind = "request"}
Mutations == {i \in Requests : IsMutating(trace[i].req)}
ResolverCalls ==
    {i \in Requests : /\ args.action \in NameBasedActions
                      /\ trace[i].req.endpoint = "/orgs/{org}/teams"}
Logs == {i \in DOMAIN trace : trace[i].kind = "log"}
PrimaryLogs == {i \in Logs : trace[i].site = "run_action"}

\* the last Transport call came back to its caller / succeeded / failed
Called == last.op # "none"
CallSucceeded == Called /\ last.res.kind = "value"
CallFailed == Called /\ last.res.kind = "none"

MutatingOperations ==
    {"create_team", "delete_team", "add_team_to_repo", "remove_team_from_repo",
     "add_user_to_team", "remove_user_from_team", "create_repo", "delete_repo"}

\* an audit record that tells of a success: any record of the success-only
\* log, a record with status "Success" in the log with a status column
SuccessMeaning(rec) == variant = "gm" \/ rec.status = "Success"

Done == pc = "done"

-----------------------------------------------------------------------------
(* C1 *)

\* C1: in every invocation, every Resolver call (the team listing of
\* get_team_by_name) comes before the mutating Transport call, and every
\* audit-logger call comes after it; the order is never reversed.
C1_Order ==
    \A m \in Mutations :
        /\ \A r \in ResolverCalls : r < m
        /\ \A l \in Logs : m < l

\* a name-based action that resolved its team, made its mutating call and
\* logged it
C1_Witness ==
    /\ Done
    /\ ResolverCalls # {}
    /\ Mutations # {}
    /\ PrimaryLogs # {}

-----------------------------------------------------------------------------
(* C2 *)

\* C2: in delete-team, add-repo, remove-repo, add-user and remove-user, as
\* long as get_team_by_name has yielded no team (not called yet, listing
\* failed, list empty, no name matches) no POST, PUT or DELETE is issued.
C2_NoTeamNoMutation ==
    (args.action \in NameBasedActions /\ team_info = NoTeam) => Mutations = {}

\* the Resolver listed teams, none matched, and the invocation is over
C2_Witness ==
    /\ Done
    /\ args.action \in NameBasedActions
    /\ ResolverCalls # {}
    /\ last.op = "list_teams"
    /\ last.list # <<>>
    /\ team_info = NoTeam

-----------------------------------------------------------------------------
(* C3 *)

\* C3, as claimed, in its half about failure: every invocation of a
\* mutating action that issued its mutating Transport call has produced
\* exactly one AuditRecord for the action when it ends, also when the call
\* failed (make_request gave no result).
C3_ExactlyOneRecord ==
    (/\ Done
     /\ args.action \in MutatingActions
     /\ last.op \in MutatingOperations
     /\ CallFailed)
        => Cardinality(PrimaryLogs) = 1

\* C3, amended: never more than one AuditRecord for the action.  An
\* invocation that issued its mutating call ends with exactly one record
\* in github.py when the Access Operation returned (status "Success" if it
\* returned True, "Failed" if False), with exactly one in git-manager.py
\* when it returned True, and with none otherwise (git-manager.py after a
\* False, either script when make_request let an exception out).
C3_OneRecordWhenLogged ==
    /\ Cardinality(PrimaryLogs) <= 1
    /\ (Done /\ args.action \in MutatingActions /\ Mutations # {}) =>
          IF last.res.kind = "raise" THEN PrimaryLogs = {}
          ELSE IF variant = "gh"
          THEN /\ Cardinality(PrimaryLogs) = 1
               /\ \A l \in PrimaryLogs :
                    /\ trace[l].rec.action = args.action
                    /\ trace[l].rec.status =
                           (IF last.ret THEN "Success" ELSE "Failed")
          ELSE /\ Cardinality(PrimaryLogs) = (IF last.ret THEN 1 ELSE 0)
               /\ \A l \in PrimaryLogs : trace[l].rec.action = args.action

\* git-manager.py: the mutating call was made and failed, the operation
\* returned False, and the invocation ended without a record
C3_Witness ==
    /\ Done
    /\ variant = "gm"
    /\ args.action \in MutatingActions
    /\ Mutations # {}
    /\ CallFailed
    /\ ~last.ret
    /\ outcome = "returned"
    /\ Logs = {}

-----------------------------------------------------------------------------
(* C4 *)

\* C4: when the Transport call of an Access Operation fails (make_request
\* returns no result), the operation reports failure and no audit record
\* with a success meaning is written after it.
C4_FailureNeverLoggedAsSuccess ==
    (Done /\ CallFailed) =>
        /\ ~last.ret
        /\ last.list = <<>>
        /\ \A l \in Logs :
              (\A r \in Requests : r < l) => ~SuccessMeaning(trace[l].rec)

-----------------------------------------------------------------------------
(* C5 *)

\* a response with a success status and an empty or a JSON body
SuccessfulResponse(resp) ==
    /\ ~resp.net
    /\ resp.status \in SuccessStatus
    /\ resp.body.kind \in {"empty", "json"}

\* C5: whenever the Transport call of a mutating action succeeds (status
\* 200, 201 or 204, body empty or JSON), the invocation ends with exactly
\* one AuditRecord, whose action is the requested action and whose status,
\* where there is a status column, is "Success".
C5_SuccessLoggedOnce ==
    (/\ Done
     /\ args.action \in MutatingActions
     /\ last.op \in MutatingOperations
     /\ SuccessfulResponse(last.resp))
        => /\ Cardinality(PrimaryLogs) = 1
           /\ \A l \in PrimaryLogs :
                /\ trace[l].rec.action = args.action
                /\ variant = "gh" => trace[l].rec.status = "Success"

-----------------------------------------------------------------------------
(* C6 *)

\* C6: a mutating Access Operation that returns has returned True exactly
\* when its make_request call gave a result (the empty structure of an
\* empty body included) and False exactly when it gave no result.
C6_ReturnsTransportSuccess ==
    (last.op \in MutatingOperations /\ last.res.kind # "raise")
        => (last.ret <=> last.res.kind = "value")

-----------------------------------------------------------------------------
(* C7 *)

\* the cases C7 lists: a network-level failure, a non-success status with
\* any body, a success status with a body that is not valid JSON
C7_Case(resp) ==
    \/ resp.net
    \/ resp.status \notin SuccessStatus
    \/ resp.body.kind = "invalid"

\* C7: make_request never raises to its caller; in each of the cases
\* listed it returns None.
C7_NeverRaises ==
    Called =>
        /\ last.res.kind # "raise"
        /\ C7_Case(last.resp) => last.res = NoResult

-----------------------------------------------------------------------------
(* C8 *)

\* C8: for a response with status 200, 201 or 204 make_request returns the
\* decoded JSON body (Python's None for the JSON text null), or the empty
\* structure when the body is empty; for any other status it returns no
\* result, whatever the body.
C8_ResultByStatus ==
    (Called /\ ~last.resp.net) =>
        IF last.resp.status \in SuccessStatus
        THEN /\ last.resp.body.kind = "empty" => last.res = Value(EmptyObj)
             /\ last.resp.body.kind = "json" =>
                    last.res = (IF last.resp.body.val.t = "null" THEN NoResult
                                ELSE Value(last.resp.body.val))
        ELSE last.res = NoResult

-----------------------------------------------------------------------------
(* C9 *)

\* C9: for a username containing "@", validate_user issues no Transport
\* call (no GET /users/{username} is ever sent), and an add-user or
\* remove-user invocation given such a username issues no Transport call
\* at all, produces no AuditRecord and ends in sys.exit(1).
C9_EmailRejectedOffline ==
    ContainsAt(args.user) =>
        /\ \A r \in Requests : trace[r].req.endpoint # "/users/{username}"
        /\ args.action \in {"add-user", "remove-user"} =>
              /\ Requests = {}
              /\ Logs = {}
              /\ Done => outcome = "exit"

\* add-user with its parameters given and an email for --user: validate_user
\* was reached and the invocation is over
C9_Witness ==
    /\ Done
    /\ args.action = "add-user"
    /\ ~Falsy(args.org)
    /\ ~Falsy(args.team)
    /\ ContainsAt(args.user)

-----------------------------------------------------------------------------
(* C10 *)

\* C10: in both scripts, for add-user, remove-user and user-access, a
\* username containing "@" stops the action before any Transport call.
C10_EmailNeverReachesTransport ==
    (args.action \in {"add-user", "remove-user", "user-access"}
     /\ ContainsAt(args.user)) => Requests = {}

-----------------------------------------------------------------------------
(* C11 *)

\* the parameters C11 lists for each action
C11_Required(a) ==
    (IF a.action = "list-orgs" THEN {} ELSE {a.org}) \cup
    (CASE a.action \in {"create-team", "delete-team"} -> {a.team}
       [] a.action = "add-repo" -> {a.team, a.repo, a.permission}
       [] a.action = "remove-repo" -> {a.team, a.repo}
       [] a.action \in {"add-user", "remove-user"} -> {a.team, a.user}
       [] a.action = "create-repo" -> {a.repo_name}
       [] a.action = "delete-repo" -> {a.repo}
       [] a.action = "user-access" -> {a.user}
       [] OTHER -> {})

\* C11: when a parameter the action requires is not given, the invocation
\* makes no Transport call, no audit-logger call, and ends in sys.exit(1).
C11_MissingParameterAborts ==
    None \in C11_Required(args) =>
        /\ Requests = {}
        /\ Logs = {}
        /\ Done => outcome = "exit"

\* add-repo with --org, --team and --repo given and --permission left out
\* has ended
C11_Witness ==
    /\ Done
    /\ args.action = "add-repo"
    /\ ~Falsy(args.org)
    /\ ~Falsy(args.team)
    /\ ~Falsy(args.repo)
    /\ args.permission = None

-----------------------------------------------------------------------------
(* C12 *)

\* the positions of the listed teams whose name is the requested name,
\* ignoring case
C12_Matches(teams, team_name) ==
    {i \in DOMAIN teams : Lower(teams[i].name) = Lower(team_name)}

\* what C12 says get_team_by_name returns for a listing
C12_Expected(teams, team_name) ==
    LET matches == C12_Matches(teams, team_name)
    IN IF matches = {} THEN NoTeam
       ELSE teams[CHOOSE i \in matches : \A j \in matches : i <= j]

\* C12: once a name-based action has called get_team_by_name, the call has
\* returned; it has returned None when the listing failed, was empty or
\* held no team of that name ignoring case, and otherwise the first listed
\* team whose name matches ignoring case.
C12_FirstMatchOrNotFound ==
    (args.action \in NameBasedActions /\ last.op = "list_teams") =>
        /\ last.res.kind # "raise"
        /\ CallFailed => team_info = NoTeam
        /\ team_info = C12_Expected(last.list, args.team)

-----------------------------------------------------------------------------
(* C13 *)

\* the number of records among rows: the rows that are not header rows
C13_Records(rows) == Cardinality({i \in DOMAIN rows : rows[i].titles = <<>>})

\* every row of old is in new, with the same content and in the same order
C13_Kept(old, new) ==
    \E f \in [DOMAIN old -> DOMAIN new] :
        /\ \A i \in DOMAIN old : new[f[i]] = old[i]
        /\ \A i, j \in DOMAIN old : i < j => f[i] < f[j]

\* a logger call against an existing backend has completed without an
\* exception
C13_SuccessfulCall ==
    /\ lastlog.called
    /\ lastlog.before.exists
    /\ lastlog.raised = "none"

\* C13, as claimed: a successful logger call against an existing backend
\* has grown the number of records by exactly one and has kept every row
\* that was there, with its content and in order.
C13_AppendOnly ==
    C13_SuccessfulCall =>
        /\ C13_Records(backend.rows) = C13_Records(lastlog.before.rows) + 1
        /\ C13_Kept(lastlog.before.rows, backend.rows)

\* C13, amended: so it is for the Excel file and for a worksheet that is
\* empty or whose first cell is "Timestamp"; a worksheet whose first row
\* starts otherwise has been cleared, and holds the header and the record
\* of the call and none of its former rows.
C13_AppendOnlyUnlessRepaired ==
    C13_SuccessfulCall =>
        IF /\ variant = "gh"
           /\ lastlog.before.rows # <<>>
           /\ FirstCell(lastlog.before.rows[1]) # "Timestamp"
        THEN /\ Len(backend.rows) = 2
             /\ backend.rows[1].titles[1] = "Timestamp"
             /\ C13_Records(backend.rows) = 1
             /\ backend.rows[2].cells.action = lastlog.rec.action
        ELSE /\ C13_Records(backend.rows)
                    = C13_Records(lastlog.before.rows) + 1
             /\ C13_Kept(lastlog.before.rows, backend.rows)

\* a successful call against a worksheet that held the header and a record
C13_Witness ==
    /\ C13_SuccessfulCall
    /\ variant = "gh"
    /\ Len(lastlog.before.rows) = 2
    /\ FirstCell(lastlog.before.rows[1]) = "Timestamp"
    /\ Len(backend.rows) = 3

-----------------------------------------------------------------------------
(* C14 *)

\* C14: after a logger call in which a step of the backend failed, the
\* call has returned to its caller: list_users_with_access is in its loop
\* again, run_action has gone on to its end; and success still holds the
\* outcome of the Access Operation that the record tells of.
C14_LoggerFailureContained ==
    (lastlog.called /\ lastlog.raised # "none") =>
        /\ outcome # "crash"
        /\ IF lastlog.site = "list_users_with_access"
           THEN \/ pc \in {"audit_permission", "audit_log", "log"}
                   /\ outcome = "running"
                \/ pc = "done" /\ outcome = "returned"
           ELSE /\ pc = "done"
                /\ outcome = "returned"
                /\ success = SuccessMeaning(lastlog.rec)

\* log_to_google_sheets after a formatting call that raised, for a failed
\* operation
C14_Witness ==
    /\ lastlog.called
    /\ variant = "gh"
    /\ lastlog.site = "run_action"
    /\ lastlog.raised = "format_status"
    /\ ~success

-----------------------------------------------------------------------------
(* C15 *)

\* the formatting calls of log_to_google_sheets
C15_FormattingSteps == {"format_header", "format_status", "format_permission"}

\* C15: after a call of log_to_google_sheets in which a formatting call
\* raised, the last row of the worksheet is the record of that call.
C15_FormatFailureKeepsRecord ==
    (lastlog.called /\ lastlog.raised \in C15_FormattingSteps) =>
        /\ backend.rows # <<>>
        /\ backend.rows[Len(backend.rows)] = row_data(lastlog.rec)

-----------------------------------------------------------------------------
(* C16 *)

\* a name-based action whose get_team_by_name returned no team has ended
C16_ResolutionFailed ==
    /\ Done
    /\ args.action \in NameBasedActions
    /\ last.op = "list_teams"
    /\ last.res.kind # "raise"
    /\ team_info = NoTeam

\* C16: a name-based action whose resolution failed ends without a
\* mutating call; git-manager.py has written no audit record for it, and
\* github.py has written one, with status "Failed".
C16_ResolutionFailureRecord ==
    C16_ResolutionFailed =>
        /\ Mutations = {}
        /\ IF variant = "gm" THEN Logs = {}
           ELSE /\ Cardinality(PrimaryLogs) = 1
                /\ \A l \in PrimaryLogs : trace[l].rec.status = "Failed"

-----------------------------------------------------------------------------
(* C17 *)

\* the last add_team_to_repo call was a PUT the remote accepted
C17_Accepted ==
    /\ last.op = "add_team_to_repo"
    /\ last.resp \in AcceptedAnswers

\* C17: every add_team_to_repo call whose PUT the remote accepted has
\* returned True, also when the binding already had that permission, and
\* the remote's binding of the call's (slug, repo) pair then has the
\* permission of the call.
C17_LastPermissionWins ==
    C17_Accepted =>
        /\ last.ret
        /\ remote.binding[<<team_info.slug, args.repo>>] = args.permission

\* a second accepted call with the arguments of an earlier one: the binding
\* had the permission of the call before it
C17_Witness ==
    /\ C17_Accepted
    /\ remote.before[<<team_info.slug, args.repo>>] = args.permission
    /\ last.ret

-----------------------------------------------------------------------------
(* C18 *)

\* the record of the last logger call carries a description that
\* get_access_level_description made of its permission
C18_Classified == lastlog.called /\ lastlog.rec.access_level # NoDescription

\* the description C18 speaks of, for the string p
C18_Unknown(p) == Description("Unknown Access Level ({permission})", p)

\* the five strings C18 names
C18_Named ==
    {<<"a", "d", "m", "i", "n">>, <<"m", "a", "i", "n", "t", "a", "i", "n">>,
     <<"p", "u", "s", "h">>, <<"t", "r", "i", "a", "g", "e">>,
     <<"p", "u", "l", "l">>}

\* C18, as claimed: for every permission string that is not one of admin,
\* maintain, push, triage, pull, the description is "Unknown Access Level"
\* with the string itself.
C18_UnknownOutsideFive ==
    (C18_Classified /\ lastlog.rec.permission \notin C18_Named) =>
        lastlog.rec.access_level = C18_Unknown(lastlog.rec.permission)

\* C18, amended: the description is "Unknown Access Level" with the string
\* itself, verbatim, exactly for the strings whose lower-case form is none
\* of admin, maintain, push, triage, pull, none; for the others, whatever
\* their case, it is an entry of the table.
C18_UnknownOutsideTable ==
    C18_Classified =>
        IF Lower(lastlog.rec.permission)
               \in C18_Named \cup {<<"n", "o", "n", "e">>}
        THEN /\ lastlog.rec.access_level.arg = <<>>
             /\ lastlog.rec.access_level.text
                    # C18_Unknown(lastlog.rec.permission).text
        ELSE lastlog.rec.access_level = C18_Unknown(lastlog.rec.permission)

\* a record for a permission outside the table that is not in lower case
C18_Witness ==
    /\ C18_Classified
    /\ lastlog.rec.permission = <<"O", "w", "n", "e", "r">>
    /\ lastlog.rec.access_level.arg = <<"O", "w", "n", "e", "r">>

-----------------------------------------------------------------------------
(* C19 *)

\* the (user, repo) pairs of the listed users and listed repositories, in
\* user-major order
C19_Pairs(users, repos) ==
    [k \in 1..(Len(users) * Len(repos)) |->
        <<users[((k - 1) \div Len(repos)) + 1].login,
          repos[((k - 1) % Len(repos)) + 1].name>>]

C19_IsPairLog(e) == e.kind = "log" /\ e.site = "list_users_with_access"

\* the (user, repo) pairs of the log_to_google_sheets calls that
\* list_users_with_access has made, in the order of the calls
C19_Emitted ==
    LET calls == SelectSeq(trace, C19_IsPairLog)
    IN [k \in DOMAIN calls |-> <<calls[k].rec.user, calls[k].rec.repo>>]

\* list_users_with_access has ended after its three listings came back
C19_Ended ==
    /\ Done
    /\ args.action = "list-users-access"
    /\ last.op \in {"list_teams", "list_users_with_access"}
    /\ last.op = "list_teams" => last.res.kind # "raise"

\* C19: when list_users_with_access has ended, it has made exactly one
\* log_to_google_sheets call for each (user, repo) pair of the listed users
\* and repositories, in user-major order, and no other, whatever the
\* membership and permission checks answered.
C19_OneRecordPerPair ==
    C19_Ended => C19_Emitted = C19_Pairs(loc.users, loc.repos)

-----------------------------------------------------------------------------
(* C20 *)

C20_ListOperations == {"list_orgs", "list_teams", "list_repos", "list_users"}

\* C20: a list operation whose Transport call failed (network failure,
\* non-success status, body that is not JSON) has returned, and what it
\* returned is the empty list.
C20_EmptyListOnFailure ==
    (last.op \in C20_ListOperations /\ C7_Case(last.resp)) =>
        /\ last.res.kind # "raise"
        /\ last.list = <<>>

-----------------------------------------------------------------------------
(* C21 *)

\* an input-validation failure: a parameter the action requires is missing
\* or empty, or the username of add-user, remove-user or user-access has
\* the shape of an email address
C21_InputInvalid ==
    \/ \E v \in C11_Required(args) : Falsy(v)
    \/ /\ args.action \in {"add-user", "remove-user", "user-access"}
       /\ ContainsAt(args.user)

\* C21: an invocation that has ended in sys.exit(1) was given invalid
\* input, and an invocation whose last Transport call failed (network
\* failure, non-success status, body that is not JSON) has not ended in
\* sys.exit(1).
C21_HardAbortOnlyOnInput ==
    /\ outcome = "exit" => C21_InputInvalid
    /\ (Called /\ C7_Case(last.resp)) => outcome # "exit"

-----------------------------------------------------------------------------
(* C22 *)

\* the GET /users/{username} of validate_user for the username of the
\* command line
C22_ValidateRequest(e) ==
    /\ e.kind = "request"
    /\ e.req.method = "GET"
    /\ e.req.endpoint = "/users/{username}"
    /\ e.req.username = args.user

\* C22: in add-user and remove-user, a team listing or a membership PUT or
\* DELETE is only issued when the first call of the invocation was
\* validate_user's for the same username, the membership call names that
\* username and comes after the Resolver's listing, and a validate_user that
\* returned False (email shape, or its GET failed) ends the invocation with
\* no team listing and no membership call.
C22_ValidatedBeforeResolved ==
    args.action \in {"add-user", "remove-user"} =>
        /\ \A i \in ResolverCalls \cup Mutations :
              /\ i > 1
              /\ C22_ValidateRequest(trace[1])
              /\ ~ContainsAt(args.user)
        /\ \A m \in Mutations :
              /\ trace[m].req.username = args.user
              /\ \E r \in ResolverCalls : r < m
        /\ (last.op = "validate_user" /\ ~last.ret) =>
              /\ pc = "done"
              /\ ResolverCalls = {}
              /\ Mutations = {}
        /\ (ContainsAt(args.user) /\ pc \notin {"main", "run", "validate"}) =>
              /\ pc = "done"
              /\ trace = <<>>

\* add-user or remove-user validated the username, resolved the team and
\* issued the membership call
C22_Witness ==
    /\ Done
    /\ args.action \in {"add-user", "remove-user"}
    /\ ResolverCalls # {}
    /\ Mutations # {}
    /\ C22_ValidateRequest(trace[1])

-----------------------------------------------------------------------------
(* C23 *)

\* C23: in delete-team, add-repo, remove-repo, add-user and remove-user,
\* every mutating Transport call carries as team_slug the slug of the team
\* get_team_by_name returned in this invocation (a team whose name matches
\* --team up to case), not the --team text, and the body of add-repo's PUT
\* is the permission object holding --permission and nothing else, while
\* the other four send no body.
C23_AddressedBySlug ==
    args.action \in NameBasedActions =>
        \A m \in Mutations :
            /\ team_info # NoTeam
            /\ Lower(team_info.name) = Lower(args.team)
            /\ trace[m].req.team_slug = team_info.slug
            /\ team_info.slug # args.team => trace[m].req.team_slug # args.team
            /\ trace[m].req.data =
                 IF args.action = "add-repo"
                 THEN PermissionData(args.permission)
                 ELSE NoData

\* add-repo resolved --team to a team whose slug differs from the name
\* given and issued its PUT
C23_Witness ==
    /\ args.action = "add-repo"
    /\ Mutations # {}
    /\ team_info # NoTeam
    /\ team_info.slug # args.team
    /\ last.op = "add_team_to_repo"

-----------------------------------------------------------------------------
(* C24 *)

\* the method and path of the mutating call of each mutating action
C24_Call(action) ==
    CASE action = "create-team" -> <<"POST", "/orgs/{org}/teams">>
      [] action = "delete-team" -> <<"DELETE", "/orgs/{org}/teams/{team_slug}">>
      [] action = "add-repo" ->
           <<"PUT", "/orgs/{org}/teams/{team_slug}/repos/{org}/{repo}">>
      [] action = "remove-repo" ->
           <<"DELETE", "/orgs/{org}/teams/{team_slug}/repos/{org}/{repo}">>
      [] action = "add-user" ->
           <<"PUT", "/orgs/{org}/teams/{team_slug}/memberships/{username}">>
      [] action = "remove-user" ->
           <<"DELETE", "/orgs/{org}/teams/{team_slug}/memberships/{username}">>
      [] action = "create-repo" -> <<"POST", "/orgs/{org}/repos">>
      [] action = "delete-repo" -> <<"DELETE", "/repos/{org}/{repo_name}">>
      [] OTHER -> <<"-", "-">>

C24_ReadOnlyActions ==
    {"list-orgs", "list-teams", "list-repos", "list-users", "user-access",
     "list-users-access"}

\* C24: an invocation issues at most one POST, PUT or DELETE, that call is
\* the one of the branch of args.action and of no other branch, and the
\* read-only actions issue none.
C24_AtMostOneMutation ==
    /\ Cardinality(Mutations) <= 1
    /\ \A m \in Mutations :
          <<trace[m].req.method, trace[m].req.endpoint>> = C24_Call(args.action)
    /\ args.action \in C24_ReadOnlyActions => Mutations = {}

\* a mutating action issued its call, the call failed and the invocation is
\* over
C24_Witness ==
    /\ Done
    /\ Cardinality(Mutations) = 1
    /\ last.op \in MutatingOperations
    /\ ~last.ret

-----------------------------------------------------------------------------
(* C25 *)

\* the number of rows that are the ten-column header
C25_Headers(rows) == Cardinality({i \in DOMAIN rows : rows[i] = SheetHeader})

\* C25: after a log_to_google_sheets call in which no step raised, the
\* worksheet exists and its first row is the ten-column header, whatever
\* the worksheet was before the call (missing, empty, first row in another
\* format, header there already), and the header is in the worksheet once.
C25_HeaderAfterCall ==
    (lastlog.called /\ variant = "gh" /\ lastlog.raised = "none") =>
        /\ backend.exists
        /\ backend.rows # <<>>
        /\ backend.rows[1] = SheetHeader
        /\ C25_Headers(backend.rows) = 1

-----------------------------------------------------------------------------
(* C26 *)

\* the number of rows that are the nine-column header
C26_Headers(rows) == Cardinality({i \in DOMAIN rows : rows[i] = ExcelHeader})

\* a log_action_to_excel call in which no step raised
C26_SuccessfulCall ==
    /\ lastlog.called
    /\ variant = "gm"
    /\ lastlog.raised = "none"

\* C26: after a successful log_action_to_excel call, a file that did not
\* exist exists and holds two rows, the header of nine titles and under it
\* the record of this call; a file that existed holds one row more and as
\* many header rows as before.
C26_HeaderOnCreationOnly ==
    C26_SuccessfulCall =>
        IF ~lastlog.before.exists
        THEN /\ backend.exists
             /\ Len(backend.rows) = 2
             /\ backend.rows[1] = ExcelHeader
             /\ Len(backend.rows[1].titles) = 9
             /\ backend.rows[2].titles = <<>>
             /\ backend.rows[2].cells.action = lastlog.rec.action
             /\ backend.rows[2].cells.org = OrEmpty(lastlog.rec.org)
        ELSE /\ Len(backend.rows) = Len(lastlog.before.rows) + 1
             /\ C26_Headers(backend.rows) = C26_Headers(lastlog.before.rows)
             /\ backend.rows[Len(backend.rows)].titles = <<>>

\* a successful call that found no file
C26_Witness ==
    /\ C26_SuccessfulCall
    /\ ~lastlog.before.exists
    /\ backend.exists

-----------------------------------------------------------------------------
(* C27 *)

\* C27: for create-team, delete-team, add-repo, remove-repo, add-user,
\* remove-user and create-repo, when github.py is run on the command line
\* git-manager.py was run on and the remote answers its calls as it answered
\* those of git-manager.py, the Transport calls github.py has issued so far
\* are the first calls git-manager.py issued, with the same method, path and
\* body, and once github.py has ended the two sequences are the same.
C27_SameTransportCalls ==
    peer.ran =>
        LET calls == TransportCalls(trace)
        IN /\ Len(calls) <= Len(peer.calls)
           /\ calls = SubSeq(peer.calls, 1, Len(calls))
           /\ Done => calls = peer.calls

\* both scripts have run add-user or remove-user to its mutating call
C27_Witness ==
    /\ peer.ran
    /\ Done
    /\ variant = "gh"
    /\ args.action \in {"add-user", "remove-user"}
    /\ Len(peer.calls) = 3
    /\ Mutations # {}

====
